---- MODULE Spec2Model ----
(***************************************************************************)
(* The OWScript transpiler (src/OWScript/Transpiler.py) as a state machine. *)
(*                                                                         *)
(* Text is modelled as a sequence of tokens.  A token is either the        *)
(* statement separator ';\n' (Sep) or one emitted fragment (an instruction *)
(* or an expression, with its argument texts).  str.count(';\n'),          *)
(* str.split(';\n') and str.rstrip(';\n') become operations on Sep tokens. *)
(* Indentation (self.tabs) is whitespace only and is left out.             *)
(*                                                                         *)
(* A Scope is a chain of namespaces, innermost last.  Array literal nodes  *)
(* are objects with identity: their elements live in heap[oid], so that an *)
(* in-place element store is seen through every reference to the node.     *)
(***************************************************************************)
EXTENDS Integers, Sequences, FiniteSets, TLC

\* Number of lines of the rule block that are lowered.
MaxLines == 2
\* The largest magnitude of an integer literal in a folded expression.
MaxOperand == 2

\* Python's None where a slot index is expected (Variable(index=None)).
NoIndex == -1
\* The unfilled '{}' offset of a skip placeholder.
Hole == -2

Names == {"gvar_a", "gvar_arr", "gvar_f", "gvar_i", "gvar_x", "pvar_p"}

------------------------------------------------------------------------------
(* AST nodes (the variants the visitor dispatches on).                      *)

Nd(t, name, op, v, oid, kids, els) ==
    [t |-> t, name |-> name, op |-> op, v |-> v, d |-> 1, oid |-> oid,
     kids |-> kids, els |-> els]

Number(v)            == Nd("Number", "", "", v, 0, <<>>, <<>>)
Rational(n, d)       == [Number(n) EXCEPT !.d = d]
Constant(name)       == Nd("Constant", name, "", 0, 0, <<>>, <<>>)
GlobalVar(name)      == Nd("GlobalVar", name, "", 0, 0, <<>>, <<>>)
PlayerVar(name, pl)  == Nd("PlayerVar", name, "", 0, 0, <<pl>>, <<>>)
Compare(l, op, r)    == Nd("Compare", "", op, 0, 0, <<l, r>>, <<>>)
BinaryOp(l, op, r)   == Nd("BinaryOp", "", op, 0, 0, <<l, r>>, <<>>)
Array(oid)           == Nd("Array", "", "", 0, oid, <<>>, <<>>)
Item(parent, index)  == Nd("Item", "", "", 0, 0, <<parent, index>>, <<>>)
Assign(l, op, r)     == Nd("Assign", "", op, 0, 0, <<l, r>>, <<>>)
Block(children)      == Nd("Block", "", "", 0, 0, children, <<>>)
\* false_block is None (els = <<>>), a Block or an If (els = <<node>>).
If(cond, tb, fb)     == Nd("If", "", "", 0, 0, <<cond, tb>>, fb)
While(cond, body)    == Nd("While", "", "", 0, 0, <<cond, body>>, <<>>)
For(ptr, it, body)   == Nd("For", "", "", 0, 0, <<ptr, it, body>>, <<>>)
Call(parent, args)   == Nd("Call", "", "", 0, 0, <<parent>>, args)
Function(name, params, children) ==
                        Nd("Function", name, "", 0, 0, children, params)
\* value is None (kids = <<>>) or an expression (kids = <<value>>).
Return(value)        == Nd("Return", "", "", 0, 0, value, <<>>)
OWID(name, children) == Nd("OWID", name, "", 0, 0, children, <<>>)

------------------------------------------------------------------------------
(* Emitted text.                                                            *)

Tk(k, n, args) == [k |-> k, n |-> n, d |-> 1, m |-> "", args |-> args]
Sep            == Tk(";\n", 0, <<>>)
min_wait       == Tk("Wait(0.016, Ignore Condition)", 0, <<>>)

RECURSIVE CountSep(_)
\* str.count(';\n')
CountSep(code) ==
    IF code = <<>> THEN 0
    ELSE (IF Head(code) = Sep THEN 1 ELSE 0) + CountSep(Tail(code))

RECURSIVE RStripSep(_)
\* str.rstrip(';\n')
RStripSep(code) ==
    IF code # <<>> /\ code[Len(code)] = Sep
    THEN RStripSep(SubSeq(code, 1, Len(code) - 1))
    ELSE code

RECURSIVE SplitSep(_, _)
\* str.split(';\n'): cur is the line being collected.
SplitSep(code, cur) ==
    IF code = <<>> THEN <<cur>>
    ELSE IF Head(code) = Sep THEN <<cur>> \o SplitSep(Tail(code), <<>>)
    ELSE SplitSep(Tail(code), Append(cur, Head(code)))

RECURSIVE JoinSep(_)
\* ';\n'.join(list of texts)
JoinSep(codes) ==
    IF codes = <<>> THEN <<>>
    ELSE IF Len(codes) = 1 THEN codes[1]
    ELSE codes[1] \o <<Sep>> \o JoinSep(Tail(codes))

RECURSIVE Concat(_)
\* ''.join(list of texts)
Concat(codes) ==
    IF codes = <<>> THEN <<>> ELSE Head(codes) \o Concat(Tail(codes))

\* int(text): the text of an integer literal; anything else is a ValueError.
IsIntText(code) == Len(code) = 1 /\ code[1].k = "Num" /\ code[1].d = 1

------------------------------------------------------------------------------
(* Scope: a chain of namespaces; Variable bindings.                         *)

\* k: "none" (absent) | "var" (a Variable) | "node" (a raw argument node).
\* org and el are history fields: the index drawn from the counter when the
\* binding's name was first stored, and whether an element store rebound it.
Bind(k, val, idx, org, el) ==
    [k |-> k, val |-> val, idx |-> idx, org |-> org, el |-> el]
Absent == Bind("none", Number(0), NoIndex, NoIndex, FALSE)
Variable(value, index, org, el) == Bind("var", value, index, org, el)

EmptyNamespace == [n \in Names |-> Absent]

RECURSIVE get(_, _)
\* Scope.get: the local namespace, then the parents.
get(scope, name) ==
    IF scope = <<>> THEN Absent
    ELSE IF scope[Len(scope)][name].k # "none" THEN scope[Len(scope)][name]
    ELSE get(SubSeq(scope, 1, Len(scope) - 1), name)

\* Scope.assign: always writes the local namespace.
assign(scope, name, var) ==
    [scope EXCEPT ![Len(scope)] = [@ EXCEPT ![name] = var]]

\* Scope(name, parent=scope)
NewScope(scope) == Append(scope, EmptyNamespace)

------------------------------------------------------------------------------
(* Transpiler state threaded through the visitor.                           *)
(* gi, pi: global_index, player_index; cur: curblock; heap: the elements of *)
(* the tree's Array nodes; err: the exception in flight ("" for none); rv:  *)
(* the value carried by a ReturnError; log: history of what was emitted.    *)

\* A history event of a read or a whole-variable store: the slot index the
\* emitted reference carries, the index drawn at the name's first store, whether
\* an element store rebound the name, whether a binding of the name was visible,
\* how many indices the operation drew from the counters, and the depth of the
\* scope it happened in.
Ev(e, name, var, visible, drawn, depth) ==
    [e |-> e, name |-> name, idx |-> var.idx, org |-> var.org, el |-> var.el,
     visible |-> visible, drawn |-> drawn, depth |-> depth]

Res(code, sc, st) == [code |-> code, sc |-> sc, st |-> st]
Raise(kind, sc, st) == Res(<<>>, sc, [st EXCEPT !.err = kind])
\* The exception a reference to a name without a visible binding ends in,
\* with the site of the reference kept in the history.
Undefined(site, kind, sc, st) ==
    Raise(kind, sc, [st EXCEPT !.log = @ \cup {[e |-> "undefined", site |-> site]}])
Ok(r) == r.st.err = ""
Logged(st, ev) == [st EXCEPT !.log = @ \cup {ev}]

\* What Scope.get gives for every name from a scope: the binding, and for a
\* binding to an Array node the elements that node holds.
View(sc, st) ==
    [n \in Names |->
        [var |-> get(sc, n),
         elements |-> IF get(sc, n).k = "var" /\ get(sc, n).val.t = "Array"
                      THEN st.heap[get(sc, n).val.oid] ELSE <<>>]]

------------------------------------------------------------------------------
(* Arithmetic of Number literals: exact rationals n/d, d > 0.               *)

RECURSIVE Gcd(_, _)
Gcd(a, b) == IF b = 0 THEN a ELSE Gcd(b, a % b)

\* Floor division and modulo with Python's sign rule, for b # 0.
FloorDiv(a, b) ==
    IF b > 0 THEN a \div b ELSE (-a) \div (-b)
PyMod(a, b) == a - b * FloorDiv(a, b)

Norm(n, d) ==
    LET s == IF d < 0 THEN -1 ELSE 1
        g == Gcd(IF n < 0 THEN -n ELSE n, IF d < 0 THEN -d ELSE d)
    IN  [ok |-> TRUE, n |-> (s * n) \div g, d |-> (s * d) \div g]
ZeroDivision == [ok |-> FALSE, n |-> 0, d |-> 1]

RECURSIVE IntPow(_, _)
IntPow(a, k) == IF k = 0 THEN 1 ELSE a * IntPow(a, k - 1)

\* The value of  a op b  for Number nodes a, b (integer exponent and modulo
\* operands); ok = FALSE is Python's ZeroDivisionError.
NumberOp(op, a, b) ==
    CASE op = "+" -> Norm(a.v * b.d + b.v * a.d, a.d * b.d)
      [] op = "-" -> Norm(a.v * b.d - b.v * a.d, a.d * b.d)
      [] op = "*" -> Norm(a.v * b.v, a.d * b.d)
      [] op = "/" -> IF b.v = 0 THEN ZeroDivision
                     ELSE Norm(a.v * b.d, a.d * b.v)
      [] op = "^" -> IF b.v >= 0
                     THEN Norm(IntPow(a.v, b.v), IntPow(a.d, b.v))
                     ELSE IF a.v = 0 THEN ZeroDivision
                     ELSE Norm(IntPow(a.d, -b.v), IntPow(a.v, -b.v))
      [] op = "%" -> IF b.v = 0 THEN ZeroDivision
                     ELSE Norm(PyMod(a.v, b.v), 1)

FoldOps == {"+", "-", "*", "/", "^", "%"}

\* The instruction name of a BinaryOp that is not folded.
OpName(op) ==
    CASE op = "+" -> "Add"
      [] op = "-" -> "Subtract"
      [] op = "*" -> "Multiply"
      [] op = "/" -> "Divide"
      [] op = "^" -> "Raise To Power"
      [] op = "%" -> "Modulo"
      [] op = "or" -> "Or"
      [] op = "and" -> "And"

------------------------------------------------------------------------------
(* The visitor.  Visit(node, scope, st) returns the text, the scope (whose  *)
(* local namespace the visit may have written) and the state.  A visitor is *)
(* written as a chain of steps, each taking the results of the visits made  *)
(* before it; a result whose st.err is set is an exception in flight.       *)

RECURSIVE Visit(_, _, _)

visitNumber(node, sc, st) ==
    Res(<<[Tk("Num", node.v, <<>>) EXCEPT !.d = node.d]>>, sc, st)

visitConstant(node, sc, st) == Res(<<Tk(node.name, 0, <<>>)>>, sc, st)

CompareEmit(node, first, second) ==
    IF ~Ok(second) THEN second
    ELSE IF node.op = "in"
    THEN Res(<<Tk("Array Contains", 0, first.code \o second.code)>>,
             second.sc, second.st)
    ELSE IF node.op = "not in"
    THEN Res(<<Tk("Not", 0, <<Tk("Array Contains", 0,
                                 first.code \o second.code)>>)>>,
             second.sc, second.st)
    ELSE Res(<<Tk("Compare " \o node.op, 0, first.code \o second.code)>>,
             second.sc, second.st)

CompareSecond(node, first) ==
    IF ~Ok(first) THEN first
    ELSE CompareEmit(node, first,
            Visit(IF node.op \in {"in", "not in"} THEN node.kids[1]
                  ELSE node.kids[2], first.sc, first.st))

\* 'in' and 'not in' visit right then left; every other op left then right.
visitCompare(node, sc, st) ==
    CompareSecond(node,
        Visit(IF node.op \in {"in", "not in"} THEN node.kids[2]
              ELSE node.kids[1], sc, st))

BinaryEmit(node, l, r) ==
    IF ~Ok(r) THEN r
    ELSE Res(<<Tk(OpName(node.op), 0, l.code \o r.code)>>, r.sc, r.st)

BinaryRight(node, l) ==
    IF ~Ok(l) THEN l ELSE BinaryEmit(node, l, Visit(node.kids[2], l.sc, l.st))

\* The literal a folded operation is replaced by: the result, or 0 on
\* ZeroDivisionError.
Folded(val) == IF val.ok THEN Rational(val.n, val.d) ELSE Number(0)

\* The text of a BinaryOp, kept in the history with its operator and operands.
BinaryLogged(node, r) ==
    IF ~Ok(r) THEN r
    ELSE Res(r.code, r.sc,
             Logged(r.st, [e |-> "binop", op |-> node.op, left |-> node.kids[1],
                           right |-> node.kids[2], code |-> r.code]))

\* A variant of visitBinaryOp that folds nothing.
visitBinaryOpUnfolded(node, sc, st) ==
    BinaryLogged(node, BinaryRight(node, Visit(node.kids[1], sc, st)))

visitBinaryOp(node, sc, st) ==
    BinaryLogged(node,
        IF /\ node.kids[1].t = "Number" /\ node.kids[2].t = "Number"
           /\ node.op \in FoldOps
        THEN Visit(Folded(NumberOp(node.op, node.kids[1], node.kids[2])), sc, st)
        ELSE BinaryRight(node, Visit(node.kids[1], sc, st)))

GlobalVarOf(node, sc, st, var) ==
    IF var.k = "none" THEN Undefined("read", "NameError", sc, st)
    ELSE IF var.k = "node" THEN Visit(var.val, sc, st)
    ELSE IF var.val.t = "String" THEN Res(<<Tk(var.val.name, 0, <<>>)>>, sc, st)
    ELSE Res(<<Tk("Value In Array(Global Variable(A))", var.idx, <<>>)>>, sc,
             Logged(st, Ev("read", node.name, var, TRUE, 0, Len(sc))))

visitGlobalVar(node, sc, st) == GlobalVarOf(node, sc, st, get(sc, node.name))

PlayerVarEmit(node, var, p) ==
    IF ~Ok(p) THEN p
    ELSE Res(<<Tk("Value In Array(Player Variable(A))", var.idx, p.code)>>, p.sc,
             Logged(p.st, Ev("read", node.name, var, TRUE, 0, Len(p.sc))))

PlayerVarOf(node, sc, st, var) ==
    IF var.k = "none" THEN Undefined("read", "NameError", sc, st)
    ELSE IF var.k = "node" THEN Visit(var.val, sc, st)
    ELSE IF var.val.t = "String" THEN Res(<<Tk(var.val.name, 0, <<>>)>>, sc, st)
    ELSE PlayerVarEmit(node, var, Visit(node.kids[1], sc, st))

visitPlayerVar(node, sc, st) == PlayerVarOf(node, sc, st, get(sc, node.name))

RECURSIVE VisitChildren(_, _, _)
\* visit_children: the list of the children's texts, in .code
ChildrenJoin(h, rest) ==
    IF ~Ok(rest) THEN rest ELSE Res(<<h.code>> \o rest.code, rest.sc, rest.st)
ChildrenNext(children, h) ==
    IF ~Ok(h) THEN h
    ELSE ChildrenJoin(h, VisitChildren(Tail(children), h.sc, h.st))
VisitChildren(children, sc, st) ==
    IF children = <<>> THEN Res(<<>>, sc, st)
    ELSE ChildrenNext(children, Visit(Head(children), sc, st))

\* ''.join(list of the children's texts)
Joined(r) == IF ~Ok(r) THEN r ELSE Res(Concat(r.code), r.sc, r.st)

\* code += self.tabs + self.visit(line, scope) + ';\n'  for each text
Terminated(r) ==
    IF ~Ok(r) THEN r
    ELSE Res(Concat([i \in 1..Len(r.code) |-> r.code[i] \o <<Sep>>]), r.sc, r.st)

\* for line in block.children: code += ... self.visit(line, scope) + ';\n'
VisitLines(children, sc, st) == Terminated(VisitChildren(children, sc, st))

\* String and Constant elements are rendered as Null.
Rendered(elements) ==
    [i \in 1..Len(elements) |->
        IF elements[i].t \in {"String", "Constant"} THEN Constant("Null")
        ELSE elements[i]]

ArrayEmit(r) ==
    IF ~Ok(r) THEN r ELSE Res(<<Tk("Append To Array", 0, r.code)>>, r.sc, r.st)

visitArray(node, sc, st) ==
    IF st.heap[node.oid] = <<>> THEN Res(<<Tk("Empty Array", 0, <<>>)>>, sc, st)
    ELSE ArrayEmit(Joined(VisitChildren(Rendered(st.heap[node.oid]), sc, st)))

\* Python's list index: -len <= i < len; the 1-based position, 0 for IndexError.
ListPos(len, i) ==
    IF 0 <= i /\ i < len THEN i + 1
    ELSE IF i < 0 /\ -len <= i THEN len + i + 1
    ELSE 0

\* var.value[index], Number 0 on IndexError
ItemAt(elements, pos) == IF pos = 0 THEN Number(0) ELSE elements[pos]

ItemOf(node, sc, st, var) ==
    IF var.k = "none" THEN Undefined("item", "NameError", sc, st)
    ELSE IF var.k # "var" THEN Raise("AttributeError", sc, st)
    ELSE IF var.val.t # "Array" THEN Raise("TypeError", sc, st)
    ELSE Visit(ItemAt(st.heap[var.val.oid],
                      ListPos(Len(st.heap[var.val.oid]), node.kids[2].v)),
               sc, st)

ItemEmit(p, i) ==
    IF ~Ok(i) THEN i
    ELSE Res(<<Tk("Value In Array", 0, p.code \o i.code)>>, i.sc, i.st)

ItemIndex(node, p) ==
    IF ~Ok(p) THEN p ELSE ItemEmit(p, Visit(node.kids[2], p.sc, p.st))

visitItem(node, sc, st) ==
    IF /\ node.kids[2].t = "Number" /\ node.kids[2].d = 1
       /\ node.kids[1].t \in {"GlobalVar", "PlayerVar"}
    THEN ItemOf(node, sc, st, get(sc, node.kids[1].name))
    ELSE ItemIndex(node, Visit(node.kids[1], sc, st))

OWIDEmit(node, r) ==
    IF ~Ok(r) THEN r ELSE Res(<<Tk(node.name, 0, r.code)>>, r.sc, r.st)

\* The argument types of the instruction vocabulary are external data; every
\* instruction of the model takes ANY, so only the rendering remains.
visitOWID(node, sc, st) ==
    OWIDEmit(node, Joined(VisitChildren(node.kids, sc, st)))

IsGvar(name) == name \in {"gvar_a", "gvar_arr", "gvar_f", "gvar_i", "gvar_x"}
IsPvar(name) == name \in {"pvar_p"}

AugOps == {"+=", "-=", "*=", "/=", "^=", "%="}
AugOp(op) ==
    CASE op = "+=" -> "+" [] op = "-=" -> "-" [] op = "*=" -> "*"
      [] op = "/=" -> "/" [] op = "^=" -> "^" [] op = "%=" -> "%"

\* next(self.global_index) / next(self.player_index)
Draw(st, global) ==
    IF global THEN [st EXCEPT !.gi = @ + 1] ELSE [st EXCEPT !.pi = @ + 1]

SetGlobal(name, b, ev, v) ==
    IF ~Ok(v) THEN v
    ELSE Res(<<Tk("Set Global Variable At Index", b.idx, v.code)>>, v.sc,
             Logged(v.st, ev))

SetPlayer(name, b, ev, p, v) ==
    IF ~Ok(v) THEN v
    ELSE Res(<<Tk("Set Player Variable At Index", b.idx, p.code \o v.code)>>,
             v.sc, Logged(v.st, ev))

SetPlayerValue(name, b, ev, p) ==
    IF ~Ok(p) THEN p ELSE SetPlayer(name, b, ev, p, Visit(b.val, p.sc, p.st))

\* The emitted store of a whole variable, after scope.assign; st0 and st1
\* are the Transpiler before and after the index was chosen.
AssignVarEmit(left, b, visible, sc1, st0, st1) ==
    IF IsGvar(left.name)
    THEN SetGlobal(left.name, b,
                   Ev("store", left.name, b, visible,
                      (st1.gi - st0.gi) + (st1.pi - st0.pi), Len(sc1)),
                   Visit(b.val, sc1, st1))
    ELSE IF IsPvar(left.name)
    THEN SetPlayerValue(left.name, b,
                   Ev("store", left.name, b, visible,
                      (st1.gi - st0.gi) + (st1.pi - st0.pi), Len(sc1)),
                   Visit(left.kids[1], sc1, st1))
    ELSE Res(<<>>, sc1, st1)

\* A first store: next(counter) gives the index.
AssignVarNew(left, value, sc, st, next) ==
    AssignVarEmit(left, Variable(value, next, next, FALSE), FALSE,
                  assign(sc, left.name, Variable(value, next, next, FALSE)),
                  st, Draw(st, left.t = "GlobalVar"))

\* A variant of AssignVarBound that draws an index at every store.
AssignVarFresh(left, value, sc, st, var) ==
    IF var.k = "node" THEN Raise("AttributeError", sc, st)
    ELSE IF var.k = "none"
    THEN AssignVarNew(left, value, sc, st, (IF left.t = "GlobalVar" THEN st.gi ELSE st.pi))
    ELSE AssignVarEmit(left,
             Variable(value, (IF left.t = "GlobalVar" THEN st.gi ELSE st.pi), var.org, var.el),
             TRUE,
             assign(sc, left.name,
                    Variable(value, (IF left.t = "GlobalVar" THEN st.gi ELSE st.pi),
                             var.org, var.el)),
             st, Draw(st, left.t = "GlobalVar"))

\* index = var.index if var else next(counter); scope.assign(name, value, index)
AssignVarBound(left, value, sc, st, var) ==
    IF var.k = "node" THEN Raise("AttributeError", sc, st)
    ELSE IF var.k = "none"
    THEN AssignVarNew(left, value, sc, st, (IF left.t = "GlobalVar" THEN st.gi ELSE st.pi))
    ELSE AssignVarEmit(left, Variable(value, var.idx, var.org, var.el), TRUE,
                       assign(sc, left.name,
                              Variable(value, var.idx, var.org, var.el)),
                       st, st)

\* History of an element store: the element index k, the slot the name was
\* bound to before, the slot the emitted instruction carries, the slot the
\* name is bound to afterwards, and the Array's elements before and after.
ElStore(name, k, var, emitted, bound, before, after) ==
    [e |-> "elstore", name |-> name, k |-> k, slot |-> var.idx,
     emitted |-> emitted, bound |-> bound, before |-> before, after |-> after]

AssignItemEmit(index, ev, v) ==
    IF ~Ok(v) THEN v
    ELSE Res(<<Tk("Set Global Variable At Index", index, v.code)>>, v.sc,
             Logged(v.st, ev))

\* self.visit(player, scope) with player already a str: no visitor for str
AssignItemPlayer(p) ==
    IF ~Ok(p) THEN p ELSE Raise("AttributeError", p.sc, p.st)

\* var.value[index] = value; value = var.value;
\* scope.assign(name=name, value=value, index=index)
AssignItemStore(parent, value, var, index, pos, sc, st) ==
    LET st1 == [st EXCEPT !.heap[var.val.oid][pos] = value]
        sc1 == assign(sc, parent.name, Variable(var.val, index, var.org, TRUE))
    IN  IF pos = 0 THEN Raise("IndexError", sc, st)
        ELSE IF parent.t = "PlayerVar"
        THEN AssignItemPlayer(Visit(parent.kids[1], sc, st1))
        ELSE IF IsGvar(parent.name)
        THEN AssignItemEmit(index,
                 ElStore(parent.name, index, var, index,
                         get(sc1, parent.name).idx,
                         st.heap[var.val.oid], st1.heap[var.val.oid]),
                 Visit(var.val, sc1, st1))
        ELSE Res(<<>>, sc1, st1)

\* index = int(self.visit(node.left.index, scope)); ValueError is turned into
\* NotImplementedError.
AssignItemIndex(parent, value, var, i) ==
    IF ~Ok(i) THEN i
    ELSE IF ~IsIntText(i.code) THEN Raise("NotImplementedError", i.sc, i.st)
    ELSE IF var.k = "none" THEN Undefined("element assignment", "AttributeError", i.sc, i.st)
    ELSE IF var.k # "var" \/ var.val.t # "Array" THEN Raise("TypeError", i.sc, i.st)
    ELSE AssignItemStore(parent, value, var, i.code[1].n,
                         ListPos(Len(i.st.heap[var.val.oid]), i.code[1].n),
                         i.sc, i.st)

\* The value stored: the right side, or left op right for an augmented op.
AssignedValue(node) ==
    IF node.op \in AugOps
    THEN BinaryOp(node.kids[1], AugOp(node.op), node.kids[2])
    ELSE node.kids[2]

visitAssign(node, sc, st) ==
    IF node.kids[1].t \in {"GlobalVar", "PlayerVar"}
    THEN AssignVarBound(node.kids[1], AssignedValue(node), sc, st,
                        get(sc, node.kids[1].name))
    ELSE IF node.kids[1].t = "Item"
    THEN AssignItemIndex(node.kids[1].kids[1], AssignedValue(node),
                         get(sc, node.kids[1].kids[1].name),
                         Visit(node.kids[1].kids[2], sc, st))
    ELSE Raise("NotImplementedError", sc, st)

\* skip_false: absent, left as the template 'Skip({})', or formatted.
SkipFalse(node, false_code) ==
    IF node.els = <<>> THEN <<>>
    ELSE IF false_code = <<>> THEN <<Tk("Skip", Hole, <<>>), Sep>>
    ELSE <<Tk("Skip", CountSep(false_code)
                      + (IF node.els[1].t = "If" THEN 1 ELSE 0), <<>>), Sep>>

\* The offset of the leading Skip If: true_code.count(';\n') + bool(false_block)
SkipOffset(node, true_code) ==
    CountSep(true_code) + (IF node.els # <<>> THEN 1 ELSE 0)

\* code = skip_code + true_code + skip_false + false_code
IfCode(node, cond, true_code, false_code) ==
    <<Tk("Skip If", SkipOffset(node, true_code), <<Tk("Not", 0, cond.code)>>),
      Sep>>
    \o true_code \o SkipFalse(node, false_code) \o false_code

\* parts are the texts of the true block's children, f the false branch.
IfEmit(node, cond, parts, f) ==
    IF ~Ok(f) THEN f
    ELSE Res(IfCode(node, cond, Concat(parts), f.code), f.sc,
             Logged(f.st, [e |-> "if", hasElse |-> node.els # <<>>,
                           elseIf |-> node.els # <<>> /\ node.els[1].t = "If",
                           off |-> SkipOffset(node, Concat(parts)),
                           cond |-> cond.code,
                           parts |-> parts,
                           skip_false |-> SkipFalse(node, f.code),
                           false_code |-> f.code,
                           code |-> IfCode(node, cond, Concat(parts), f.code)]))

IfFalse(node, cond, t) ==
    IF ~Ok(t) THEN Res(<<>>, t.sc, t.st)
    ELSE IfEmit(node, cond, t.code,
                IF node.els = <<>> THEN Res(<<>>, t.sc, t.st)
                ELSE IF node.els[1].t = "If" THEN Visit(node.els[1], t.sc, t.st)
                ELSE VisitLines(node.els[1].kids, t.sc, t.st))

IfTrue(node, cond) ==
    IF ~Ok(cond) THEN cond
    ELSE IfFalse(node, cond, VisitChildren(node.kids[2].kids, cond.sc, cond.st))

visitIf(node, sc, st) == IfTrue(node, Visit(node.kids[1], sc, st))

\* lines = len(node.body.children) + 2
WhileLinesCount(node) == Len(node.kids[2].kids) + 2

WhileEmit(node, c1, body, c2) ==
    IF ~Ok(c2) THEN c2
    ELSE Res(<<Tk("Skip If", WhileLinesCount(node), <<Tk("Not", 0, c1.code)>>),
               Sep>>
             \o body.code \o <<min_wait, Sep, Tk("Loop If", 0, c2.code)>>,
             c2.sc,
             Logged(c2.st, [e |-> "while", off |-> WhileLinesCount(node),
                            children |-> Len(node.kids[2].kids),
                            body |-> body.code]))

WhileCond(node, c1, body) ==
    IF ~Ok(body) THEN body
    ELSE WhileEmit(node, c1, body, Visit(node.kids[1], body.sc, body.st))

WhileBody(node, c1) ==
    IF ~Ok(c1) THEN c1
    ELSE WhileCond(node, c1, VisitLines(node.kids[2].kids, c1.sc, c1.st))

visitWhile(node, sc, st) == WhileBody(node, Visit(node.kids[1], sc, st))

RECURSIVE Unroll(_, _, _, _, _, _)
\* The scope an unrolled iteration is lowered in:
\*   scope = Scope(name='for', parent=scope); scope.assign(pointer.name, elem)
\* where scope is the loop variable rebound by the iteration before.
IterationScope(sc, pointer, elem) ==
    assign(NewScope(sc), pointer.name, Variable(elem, NoIndex, NoIndex, FALSE))

UnrollJoin(b, rest) ==
    IF ~Ok(rest) THEN rest
    ELSE Res(<<JoinSep(b.code)>> \o rest.code, rest.sc, rest.st)

UnrollNext(node, oid, j, site, b) ==
    IF ~Ok(b) THEN b
    ELSE UnrollJoin(b, Unroll(node, oid, j + 1, site, b.sc, b.st))

\* for elem in array.elements: ...; j is the list iterator's position and site
\* the depth of the scope at the loop.  .code is the list `lines`.
Unroll(node, oid, j, site, sc, st) ==
    IF j > Len(st.heap[oid]) THEN Res(<<>>, sc, st)
    ELSE UnrollNext(node, oid, j, site,
            VisitChildren(node.kids[3].kids,
                IterationScope(sc, node.kids[1], st.heap[oid][j]),
                Logged(st, [e |-> "iter", j |-> j, elem |-> st.heap[oid][j],
                            parent |-> Len(sc), site |-> site,
                            idx |-> get(IterationScope(sc, node.kids[1],
                                            st.heap[oid][j]),
                                        node.kids[1].name).idx])))

ForUnrolled(sc, st, n, u) ==
    IF ~Ok(u) THEN Res(<<>>, sc, u.st)
    ELSE Res(JoinSep(u.code), sc,
             Logged(Logged(u.st, [e |-> "unrolled", n |-> n, lines |-> u.code,
                                  code |-> JoinSep(u.code),
                                  gi |-> st.gi, pi |-> st.pi]),
                    [e |-> "child", kind |-> "for", n |-> n,
                     before |-> View(sc, st),
                     after |-> View(SubSeq(u.sc, 1, Len(sc)), u.st)]))

\* The block of a runtime loop: body, increment, wait, loop, reset.
ForBlock(index, body) ==
    JoinSep(body.code \o
        << <<Tk("Modify Global Variable At Index Add 1", index, <<>>)>>,
           <<min_wait>>,
           <<Tk("Loop", 0, <<>>)>>,
           <<Tk("Set Global Variable At Index", index, <<Tk("Num", 0, <<>>)>>),
             Sep>> >>)

ForSkipTo(index) ==
    [Tk("Skip If", Hole,
        <<Tk("Compare !=", 0,
             <<Tk("Value In Array(Global Variable(A))", index, <<>>),
               Tk("Num", 0, <<>>)>>)>>)
     EXCEPT !.m = "//SKIP TO"]

ForEmit(sc, st, it, ptr, body) ==
    IF ~Ok(body) THEN Res(<<>>, sc, body.st)
    ELSE Res(<<Tk("Set Global Variable At Index", st.gi, <<Tk("Num", 0, <<>>)>>),
               Sep,
               [Tk("Skip If", CountSep(ForBlock(st.gi, body)),
                   <<Tk("Compare ==", 0,
                        <<Tk("Count Of", 0, it.code)>> \o ptr.code)>>)
                EXCEPT !.m = "//FOR START"],
               Sep>> \o ForBlock(st.gi, body),
             sc,
             Logged([body.st EXCEPT !.cur = <<<<ForSkipTo(st.gi)>>>> \o @],
                    [e |-> "for", index |-> st.gi, gi |-> st.gi, pi |-> st.pi,
                     gi1 |-> ptr.st.gi, pi1 |-> ptr.st.pi,
                     off |-> CountSep(ForBlock(st.gi, body)),
                     block |-> ForBlock(st.gi, body)]))

ForBody(node, sc, st, it, ptr) ==
    IF ~Ok(ptr) THEN Res(<<>>, sc, ptr.st)
    ELSE ForEmit(sc, st, it, ptr,
                 VisitChildren(node.kids[3].kids, ptr.sc, ptr.st))

ForPointer(node, sc, st, it) ==
    IF ~Ok(it) THEN Res(<<>>, sc, it.st)
    ELSE ForBody(node, sc, st, it, Visit(node.kids[1], it.sc, it.st))

\* for_scope = Scope('for', parent=scope); index = next(self.global_index);
\* for_scope.assign(pointer.name, value=Number('0'), index=index)
ForRuntime(node, sc, st) ==
    ForPointer(node, sc, st,
        Visit(node.kids[2],
              assign(NewScope(sc), node.kids[1].name,
                     Variable(Number(0), st.gi, st.gi, FALSE)),
              Draw(st, TRUE)))

\* type(scope.get(iterable.name).value) == Array
ForOver(node, sc, st, var) ==
    IF var.k = "none" THEN Undefined("for iterable", "AttributeError", sc, st)
    ELSE IF var.k = "var" /\ var.val.t = "Array"
    THEN ForUnrolled(sc, st, Len(st.heap[var.val.oid]),
                     Unroll(node, var.val.oid, 1, Len(sc), sc, st))
    ELSE ForRuntime(node, sc, st)

visitFor(node, sc, st) ==
    IF node.kids[2].t \in {"GlobalVar", "PlayerVar"}
    THEN ForOver(node, sc, st, get(sc, node.kids[2].name))
    ELSE ForRuntime(node, sc, st)

RECURSIVE BindParams(_, _, _)
\* scope.namespace.update(dict(zip(param names, node.args))): raw nodes
BindParams(scope, params, args) ==
    IF params = <<>> \/ args = <<>> THEN scope
    ELSE BindParams(assign(scope, Head(params).name,
                           Bind("node", Head(args), NoIndex, NoIndex, FALSE)),
                    Tail(params), Tail(args))

\* The position of the first Return among a function's children, 0 for none.
FirstReturn(children) ==
    IF \E i \in 1..Len(children) : children[i].t = "Return"
    THEN CHOOSE i \in 1..Len(children) :
            /\ children[i].t = "Return"
            /\ \A k \in 1..(i - 1) : children[k].t # "Return"
    ELSE 0

RECURSIVE CallBody(_, _, _, _)

CallJoin(done, rest) ==
    IF ~Ok(rest) THEN rest
    ELSE Res(done.code \o rest.code, rest.sc, rest.st)

CallNext(children, j, done) ==
    IF ~Ok(done) THEN done
    ELSE CallJoin(done, CallBody(children, j + 1, done.sc, done.st))

\* except Errors.ReturnError as ex: code += self.visit(ex.value, scope=scope)
CallChild(children, j, h) ==
    IF h.st.err = "ReturnError"
    THEN CallNext(children, j,
                  Visit(h.st.rv, h.sc,
                        Logged([h.st EXCEPT !.err = ""],
                               [e |-> "return", pos |-> j, value |-> h.st.rv])))
    ELSE CallNext(children, j, h)

\* for child in func.children: try: code += self.visit(child, scope=scope)
CallBody(children, j, sc, st) ==
    IF j > Len(children) THEN Res(<<>>, sc, st)
    ELSE CallChild(children, j,
            Visit(children[j], sc,
                  Logged(st, [e |-> "body", pos |-> j, t |-> children[j].t,
                              first |-> FirstReturn(children)])))

\* The end of an inlined call: the function's scope is dropped, the caller
\* goes on with its own.
CallReturn(sc, st, n, body) ==
    IF ~Ok(body) THEN [body EXCEPT !.sc = sc]
    ELSE Res(body.code, sc,
             Logged(body.st, [e |-> "child", kind |-> "call", n |-> n,
                              before |-> View(sc, st),
                              after |-> View(SubSeq(body.sc, 1, Len(sc)),
                                             body.st)]))

CallOf(node, sc, st, base_node) ==
    IF base_node.k = "none" THEN Undefined("call", "NameError", sc, st)
    ELSE IF base_node.val.t = "Function"
    THEN IF Len(base_node.val.els) # Len(node.els)
         THEN Raise("InvalidParameter", sc, st)
         ELSE CallReturn(sc, st, Len(base_node.val.kids),
                  CallBody(base_node.val.kids, 1,
                           BindParams(NewScope(sc), base_node.val.els, node.els),
                           st))
    \* calling a value that is no function: the TypeError is swallowed
    ELSE Res(<<>>, sc, st)

visitCall(node, sc, st) == CallOf(node, sc, st, get(sc, node.kids[1].name))

visitReturn(node, sc, st) ==
    IF node.kids # <<>>
    THEN Res(<<>>, sc, [st EXCEPT !.err = "ReturnError", !.rv = node.kids[1]])
    ELSE Res(<<>>, sc, st)

visitFunction(node, sc, st) ==
    Res(<<>>, assign(sc, "gvar_" \o node.name,
                     Variable(node, NoIndex, NoIndex, FALSE)), st)

visitBlock(node, sc, st) == Joined(VisitChildren(node.kids, sc, st))

\* visit: dispatch on the node's type.
Visit(node, sc, st) ==
    CASE node.t = "Number"    -> visitNumber(node, sc, st)
      [] node.t = "Constant"  -> visitConstant(node, sc, st)
      [] node.t = "Compare"   -> visitCompare(node, sc, st)
      [] node.t = "BinaryOp"  -> visitBinaryOp(node, sc, st)
      [] node.t = "GlobalVar" -> visitGlobalVar(node, sc, st)
      [] node.t = "PlayerVar" -> visitPlayerVar(node, sc, st)
      [] node.t = "Array"     -> visitArray(node, sc, st)
      [] node.t = "Item"      -> visitItem(node, sc, st)
      [] node.t = "OWID"      -> visitOWID(node, sc, st)
      [] node.t = "Assign"    -> visitAssign(node, sc, st)
      [] node.t = "If"        -> visitIf(node, sc, st)
      [] node.t = "While"     -> visitWhile(node, sc, st)
      [] node.t = "For"       -> visitFor(node, sc, st)
      [] node.t = "Call"      -> visitCall(node, sc, st)
      [] node.t = "Return"    -> visitReturn(node, sc, st)
      [] node.t = "Function"  -> visitFunction(node, sc, st)
      [] node.t = "Block"     -> visitBlock(node, sc, st)

------------------------------------------------------------------------------
(* The driver: run, visitRuleblock and resolve_skips.                       *)

Matches(line, marker) == line # <<>> /\ line[1].m = marker
Fill(line, jump) ==
    [i \in 1..Len(line) |->
        IF line[i].n = Hole THEN [line[i] EXCEPT !.n = jump] ELSE line[i]]

Positions(cur, marker) ==
    {i \in 1..Len(cur) : Matches(cur[i], marker)}

RECURSIVE Sorted(_)
\* the positions of a set in increasing order
Sorted(S) ==
    IF S = {} THEN <<>>
    ELSE <<CHOOSE x \in S : \A y \in S : x <= y>>
         \o Sorted(S \ {CHOOSE x \in S : \A y \in S : x <= y})

Stripped(cur) ==
    [i \in 1..Len(cur) |->
        IF Matches(cur[i], "//SKIP TO") \/ Matches(cur[i], "//FOR START")
        THEN [j \in 1..Len(cur[i]) |-> [cur[i][j] EXCEPT !.m = ""]]
        ELSE cur[i]]

\* for skip, jump in zip(skips, skip_to[::-1]):
\*     self.curblock[skip] = self.curblock[skip].format(jump)
\* with skip_to holding line_no - 1 for 0-based line numbers.
Zipped(cur, skips, skip_to) ==
    [i \in 1..Len(cur) |->
        IF \E k \in 1..Len(skips) : k <= Len(skip_to) /\ skips[k] = i
        THEN Fill(Stripped(cur)[i],
                  skip_to[CHOOSE k \in 1..Len(skips) : skips[k] = i] - 2)
        ELSE Stripped(cur)[i]]

\* skips in increasing order, skip_to[::-1] in decreasing order
resolve_skips(cur) ==
    Zipped(cur, Sorted(Positions(cur, "//SKIP TO")),
           [k \in 1..Cardinality(Positions(cur, "//FOR START")) |->
               Sorted(Positions(cur, "//FOR START"))
                   [Cardinality(Positions(cur, "//FOR START")) + 1 - k]])

\* if result: result = result.rstrip(';\n').split(';\n'); curblock.append(...)
Collect(r) ==
    IF ~Ok(r) \/ r.code = <<>> THEN [sc |-> r.sc, st |-> r.st]
    ELSE [sc |-> r.sc,
          st |-> [r.st EXCEPT !.cur = @ \o SplitSep(RStripSep(r.code), <<>>)]]

\* One line of the rule block: visit it, split the result into the block.
RuleblockLine(line, sc, st) == Collect(Visit(line, sc, st))

\* Transpiler.__init__ and the global Scope of run().  (The builtins of the
\* global namespace use names no program of the model refers to.)
NewState(heap) ==
    [gi |-> 0, pi |-> 0, cur |-> <<>>, heap |-> heap, err |-> "",
     rv |-> Number(0), log |-> {}]
GlobalScope == <<EmptyNamespace>>

RECURSIVE RunLines(_, _)
\* The lines of a block in order, stopping at the first error; r holds the
\* scope and the Transpiler so far.
RunLines(lines, r) ==
    IF lines = <<>> \/ r.st.err # "" THEN r
    ELSE RunLines(Tail(lines), RuleblockLine(Head(lines), r.sc, r.st))

\* The outcome of a run: the block's text, unless an exception ended it.
RunOut(r) ==
    [done |-> TRUE, err |-> r.st.err, sc |-> r.sc,
     out |-> IF r.st.err = "" THEN JoinSep(resolve_skips(r.st.cur)) ELSE <<>>]

\* A whole run of a fresh Transpiler over the functions and the block.
run(functions, lines, heap) ==
    RunOut(RunLines(lines,
                    VisitChildren(functions, GlobalScope, NewState(heap))))

------------------------------------------------------------------------------
(* The programs of the model: one optional function, and the lines of one   *)
(* Actions block, each drawn from the statements below.                     *)

A   == GlobalVar("gvar_a")
ARR == GlobalVar("gvar_arr")
I   == GlobalVar("gvar_i")
P   == PlayerVar("pvar_p", Constant("Event Player"))
C   == Constant("Is Game In Progress")

Act    == OWID("Abort", <<>>)
Use(e) == OWID("Kill", <<e>>)
SetA   == Assign(A, "=", Number(1))
IncA   == Assign(A, "+=", Number(1))

Functions ==
    { Function("f", <<>>, <<SetA, Use(A)>>),
      Function("f", <<>>, <<Act, Return(<<Number(7)>>), Use(Number(8))>>),
      Function("f", <<>>, <<Return(<<>>), IncA>>),
      Function("f", <<>>, <<Assign(Item(ARR, Number(0)), "=", Number(9)), SetA>>),
      Function("f", <<GlobalVar("gvar_x")>>,
               <<If(C, Block(<<Return(<<GlobalVar("gvar_x")>>)>>), <<>>), Act>>) }

\* The element lists of the Array literals.
ArrayLiterals == { <<>>, <<Number(1), Number(2), Number(3)>> }

AssignLines ==
    { SetA, IncA,
      Assign(P, "=", Number(2)), Assign(P, "+=", Number(1)),
      Assign(A, "=", Item(ARR, Number(1))),
      Assign(Item(ARR, Number(2)), "=", Number(9)),
      Assign(Item(ARR, Number(0)), "=", A),
      Assign(Item(ARR, Number(3)), "=", Number(9)),
      Assign(Item(ARR, A), "=", Number(9)) }

OWIDLines == { Act, Use(A), Use(P), Use(ARR), Use(Item(ARR, A)) }

IfLines ==
    { If(C, Block(<<Act>>), <<>>),
      If(C, Block(<<Act, SetA>>), <<>>),
      If(C, Block(<<Act>>), <<Block(<<Use(A)>>)>>),
      If(C, Block(<<While(C, Block(<<Act>>))>>), <<Block(<<Act, Act>>)>>),
      If(C, Block(<<Act>>), <<Block(<<If(C, Block(<<Act>>), <<Block(<<Act>>)>>)>>)>>),
      If(C, Block(<<Act>>), <<If(C, Block(<<Act>>), <<>>)>>) }

WhileLines ==
    { While(C, Block(<<Act>>)),
      While(Compare(A, "<", Number(5)), Block(<<IncA, Act>>)),
      While(C, Block(<<If(C, Block(<<Act>>), <<>>)>>)),
      While(C, Block(<<While(C, Block(<<Act>>)), Act>>)) }

ForLines ==
    { For(I, ARR, Block(<<Use(I)>>)),
      For(I, ARR, Block(<<IncA, Act>>)),
      For(I, ARR, Block(<<Assign(P, "=", I)>>)),
      For(I, ARR, Block(<<Assign(Item(ARR, Number(1)), "=", I), SetA>>)),
      For(I, A, Block(<<Use(I)>>)),
      For(I, OWID("All Players", <<C>>), Block(<<Act, IncA>>)),
      For(I, OWID("All Players", <<C>>),
          Block(<<For(GlobalVar("gvar_x"), OWID("All Players", <<C>>),
                      Block(<<Use(GlobalVar("gvar_x"))>>))>>)),
      For(I, OWID("All Players", <<C>>),
          Block(<<If(C, Block(<<Act>>), <<Block(<<Act>>)>>)>>)) }

CallLines == { Call(GlobalVar("gvar_f"), <<>>), Call(GlobalVar("gvar_f"), <<A>>) }

------------------------------------------------------------------------------
VARIABLES
    functions,  \* the Function definitions of the script
    tree,       \* the lines of the block lowered so far
    heap0,      \* the elements of the tree's Array literals as parsed
    scope,      \* the global Scope
    st,         \* the Transpiler: counters, curblock, the tree's Array nodes
    status,     \* "running" | "done" | "error"
    out,        \* the block's text once the run is done
    second      \* a second run of a fresh Transpiler on the same tree

vars == <<functions, tree, heap0, scope, st, status, out, second>>

Init ==
    /\ functions = <<>>
    /\ tree = <<>>
    /\ heap0 = [o \in 1..MaxLines |-> <<>>]
    /\ scope = GlobalScope
    /\ st = NewState([o \in 1..MaxLines |-> <<>>])
    /\ status = "running"
    /\ out = <<>>
    /\ second = [done |-> FALSE, out |-> <<>>, err |-> "", sc |-> GlobalScope]

\* visitScript reaching a Function definition (before the rule's block).
VisitFunction ==
    /\ status = "running" /\ tree = <<>> /\ functions = <<>>
    /\ \E f \in Functions :
          /\ functions' = <<f>>
          /\ scope' = visitFunction(f, scope, st).sc
          /\ st' = visitFunction(f, scope, st).st
    /\ UNCHANGED <<tree, heap0, status, out, second>>

Lowered(line, r) ==
    /\ tree' = Append(tree, line)
    /\ scope' = r.sc
    /\ st' = r.st
    /\ status' = IF r.st.err = "" THEN "running" ELSE "error"

\* visitRuleblock lowering the next line of the block.
Lower(line, from) ==
    /\ status = "running" /\ Len(tree) < MaxLines
    /\ Lowered(line, RuleblockLine(line, scope, from))
    /\ UNCHANGED <<functions, out, second>>

VisitAssign ==
    /\ \E line \in AssignLines : Lower(line, st)
    /\ UNCHANGED heap0

\* gvar_arr = [ ... ]: the Array literal is a new node of the tree.
VisitAssignArray ==
    \E elements \in ArrayLiterals :
        /\ Len(tree) < MaxLines
        /\ Lower(Assign(ARR, "=", Array(Len(tree) + 1)),
                 [st EXCEPT !.heap[Len(tree) + 1] = elements])
        /\ heap0' = [heap0 EXCEPT ![Len(tree) + 1] = elements]

VisitOWID  == (\E line \in OWIDLines : Lower(line, st)) /\ UNCHANGED heap0
VisitIf    == (\E line \in IfLines : Lower(line, st)) /\ UNCHANGED heap0
VisitWhile == (\E line \in WhileLines : Lower(line, st)) /\ UNCHANGED heap0
VisitFor   == (\E line \in ForLines : Lower(line, st)) /\ UNCHANGED heap0
VisitCall  == (\E line \in CallLines : Lower(line, st)) /\ UNCHANGED heap0

\* The end of the block: resolve_skips and the join of the block's lines.
Finish ==
    /\ status = "running"
    /\ status' = "done"
    /\ st' = [st EXCEPT !.cur = resolve_skips(st.cur)]
    /\ out' = JoinSep(resolve_skips(st.cur))
    /\ UNCHANGED <<functions, tree, heap0, scope, second>>

\* A fresh Transpiler run on the same tree object (whose Array nodes are as
\* the first run left them).
SecondRun ==
    /\ status = "done" /\ ~second.done
    /\ second' = run(functions, tree, st.heap)
    /\ UNCHANGED <<functions, tree, heap0, scope, st, status, out>>

Next ==
    \/ VisitFunction
    \/ VisitAssign
    \/ VisitAssignArray
    \/ VisitOWID
    \/ VisitIf
    \/ VisitWhile
    \/ VisitFor
    \/ VisitCall
    \/ Finish
    \/ SecondRun

Spec == Init /\ [][Next]_vars

------------------------------------------------------------------------------
(* Scripts of one expression statement holding two BinaryOps over the same  *)
(* operator: one of two Number literals, one of a variable and a literal.   *)

\* The integer literals of the expressions.
Operands == (0 - MaxOperand)..MaxOperand

\* gvar_a = 1 as the first line of the block.
BindNumber ==
    /\ tree = <<>>
    /\ Lower(SetA, st)
    /\ UNCHANGED heap0

\* visitBinaryOp reached through the arguments of one instruction.
VisitBinaryOp ==
    /\ tree \in {<<>>, <<SetA>>}
    /\ \E l \in Operands, r \in Operands, op \in FoldOps :
          Lower(OWID("Kill", <<BinaryOp(Number(l), op, Number(r)),
                               BinaryOp(A, op, Number(r))>>), st)
    /\ UNCHANGED heap0

NextFold ==
    \/ BindNumber
    \/ VisitBinaryOp
    \/ Finish

SpecFold == Init /\ [][NextFold]_vars

------------------------------------------------------------------------------
(* Properties.                                                              *)

\* The lines a text occupies in the final document, and how many of them hold
\* a statement (a line with no fragment at all is not a statement).
LinesOf(code) == IF code = <<>> THEN <<>> ELSE SplitSep(RStripSep(code), <<>>)
CountStatements(lines) == Cardinality({i \in 1..Len(lines) : lines[i] # <<>>})
Statements(code) == CountStatements(LinesOf(code))

\* The reads and whole-variable stores in the history whose name has a slot
\* drawn at a first store and has not been the target of an element store.
SlotEvents ==
    {ev \in st.log : ev.e \in {"read", "store"} /\ ~ev.el /\ ev.org # NoIndex}

\* C1: every read and whole-variable store of a name, in the scope of its
\* first store or a descendant scope, carries the slot index drawn at that
\* first store, and a store of a name that is already visible draws nothing
\* from either counter.
C1_StableSlot ==
    \A ev \in SlotEvents :
        /\ ev.idx = ev.org
        /\ ev.visible => ev.drawn = 0

\* A name first stored in the global scope is stored again and read in a
\* descendant scope, after another name has taken a later slot.
C1_Witness ==
    /\ \E ev \in SlotEvents : ev.e = "store" /\ ev.visible /\ ev.depth > 1
    /\ \E ev \in SlotEvents : ev.e = "read" /\ ev.depth > 1
    /\ \E ev \in SlotEvents : ev.e = "store" /\ ~ev.visible /\ ev.depth = 1
    /\ st.gi + st.pi > 1

\* The element stores in the history.
ElementStores == {ev \in st.log : ev.e = "elstore"}

\* C2: an element assignment arr[k] = v with a literal k replaces only
\* element k of the N elements, and re-stores the array at the slot arr was
\* bound to: the emitted Set ... At Index carries that slot and arr is still
\* bound to it afterwards.
C2_ElementStoreSameSlot ==
    \A ev \in ElementStores :
        /\ ev.emitted = ev.slot
        /\ ev.bound = ev.slot
        /\ Len(ev.after) = Len(ev.before)
        /\ \A i \in 1..Len(ev.before) :
              i # ListPos(Len(ev.before), ev.k) => ev.after[i] = ev.before[i]

\* The if statements in the history whose false branch is absent or a block.
IfEvents == {ev \in st.log : ev.e = "if" /\ ~ev.elseIf}

\* C3: an if whose true branch lowers to T statements and whose false block
\* lowers to F statements starts with Skip If(Not(cond), T + 1), then has the
\* T true statements, Skip(F) and the F false statements; without an else
\* the offset is T and nothing follows the true statements.
C3_IfOffsets ==
    \A ev \in IfEvents :
        /\ ev.off = Statements(JoinSep(ev.parts)) + (IF ev.hasElse THEN 1 ELSE 0)
        /\ LinesOf(ev.code) =
              <<<<Tk("Skip If",
                     Statements(JoinSep(ev.parts)) + (IF ev.hasElse THEN 1 ELSE 0),
                     <<Tk("Not", 0, ev.cond)>>)>>>>
              \o LinesOf(JoinSep(ev.parts))
              \o (IF ev.hasElse
                  THEN <<<<Tk("Skip", Statements(ev.false_code), <<>>)>>>>
                  ELSE <<>>)
              \o LinesOf(ev.false_code)

\* C4: a while loop starts with Skip If(Not(cond), B + 2), B being the number
\* of statements its lowered body holds (nested constructs in full).
C4_WhileOffset ==
    \A ev \in st.log :
        ev.e = "while" => ev.off = Statements(ev.body) + 2

\* The runtime for loops in the history.
ForEvents == {ev \in st.log : ev.e = "for"}

\* C5: a for loop over a collection that is no literal Array draws exactly
\* one index from the global counter and none from the per-entity counter, an
\* index no earlier first store and no other loop holds, and the offset of
\* its Skip If is the number of statements of body, increment, wait, loop
\* and reset.
C5_RuntimeFor ==
    \A ev \in ForEvents :
        /\ ev.index = ev.gi
        /\ ev.gi1 = ev.gi + 1
        /\ ev.pi1 = ev.pi
        /\ \A o \in ForEvents : o # ev => o.index # ev.index
        /\ \A o \in st.log :
              o.e = "store" /\ ~o.visible /\ IsGvar(o.name) => o.idx # ev.index
        /\ ev.off = Statements(ev.block)

\* C6: a for loop over a variable bound to a literal Array of N elements
\* emits N copies of the body, each lowered in a child of the scope at the
\* loop that binds the loop variable without a slot index; N = 0 emits nothing.
C6_UnrolledFor ==
    \A ev \in st.log :
        /\ ev.e = "iter" => ev.parent = ev.site /\ ev.idx = NoIndex
        /\ ev.e = "unrolled" =>
              /\ Len(ev.lines) = ev.n
              /\ ev.code = JoinSep(ev.lines)
              /\ ev.n = 0 => ev.code = <<>>

\* C7: an inlined call lowers no body statement after the first Return of
\* the body, and the return signal never reaches the driver.
C7_ReturnHalts ==
    /\ st.err # "ReturnError"
    /\ \A ev \in st.log :
          ev.e = "body" /\ ev.first # 0 => ev.pos <= ev.first

\* C8: a second run of a fresh Transpiler on the same tree gives the text
\* and the slot of every name that the first run gave.
C8_SecondRunSame ==
    second.done =>
        /\ second.err = ""
        /\ second.out = out
        /\ \A n \in Names : get(second.sc, n).idx = get(scope, n).idx

\* C10: a reference to a name without a visible binding, at any site, ends
\* the run in a name-resolution error: no text is produced.
C10_UndefinedIsNameError ==
    (\E ev \in st.log : ev.e = "undefined") =>
        /\ st.err = "NameError"
        /\ status = "error"
        /\ out = <<>>

\* C11: an assignment lowered in the scope of an inlined call or of an
\* unrolled for-iteration leaves every enclosing scope as it was: once that
\* scope is dropped, every name looked up from the enclosing scope has the
\* binding, the slot and (for an array) the elements it had before the
\* scope was created.
C11_AncestorsUnchanged ==
    \A ev \in st.log : ev.e = "child" => ev.after = ev.before

\* The lines of a resolved block that came from a loop's placeholder at the
\* head of the block, the loop (by its counter's slot) such a line or a
\* loop's first line belongs to, and the lines a loop's first line is at.
SkipLines(cur) ==
    {p \in 1..Len(cur) :
        /\ cur[p] # <<>> /\ cur[p][1].k = "Skip If" /\ cur[p][1].args # <<>>
        /\ cur[p][1].args[1].k = "Compare !="}
LoopOf(line) == line[1].args[1].args[1].n
TargetLines(cur, index) ==
    {t \in 1..Len(cur) :
        /\ cur[t] # <<>> /\ cur[t][1].k = "Skip If" /\ cur[t][1].args # <<>>
        /\ cur[t][1].args[1].k = "Compare =="
        /\ cur[t][1].args[1].args[Len(cur[t][1].args[1].args)].n = index}

\* Every placeholder line carries the distance from its own line to the
\* first line of its own loop; d = 1 counts the statements jumped over,
\* d = 0 counts the target line too.
SkipOffsets(cur, d) ==
    \A p \in SkipLines(cur) :
        /\ TargetLines(cur, LoopOf(cur[p])) # {}
        /\ \A t \in TargetLines(cur, LoopOf(cur[p])) :
               cur[p][1].n = t - p - d

\* C12: in a finished block with runtime for-loops, every loop has its
\* placeholder line, every placeholder line holds the distance in lowered
\* statements from its own line to the first line of the loop that emitted
\* it (counted the same way for all of them), and no line keeps a marker or
\* an unfilled offset.
C12_SkipsResolved ==
    status = "done" /\ ForEvents # {} =>
        /\ \A i \in 1..Len(st.cur) : \A j \in 1..Len(st.cur[i]) :
               st.cur[i][j].m = "" /\ st.cur[i][j].n # Hole
        /\ \A ev \in ForEvents :
               \E p \in SkipLines(st.cur) : LoopOf(st.cur[p]) = ev.index
        /\ SkipOffsets(st.cur, 1) \/ SkipOffsets(st.cur, 0)

\* The BinaryOps in the history.
BinaryEvents == {ev \in st.log : ev.e = "binop"}

\* n/d (d > 0) is the exact value of  a op b  for integers a and b, where
\* that value exists; a division by zero is 0.
Exact(op, a, b, n, d) ==
    CASE op = "+" -> n = (a + b) * d
      [] op = "-" -> n = (a - b) * d
      [] op = "*" -> n = a * b * d
      [] op = "/" -> IF b = 0 THEN n = 0 ELSE n * b = a * d
      [] op = "^" -> IF b >= 0 THEN n = IntPow(a, b) * d
                     ELSE a # 0 => n * IntPow(a, 0 - b) = d
      [] op = "%" -> b # 0 =>
                        /\ d = 1
                        /\ \E k \in (0 - (a * a + 1))..(a * a + 1) : a = k * b + n
                        /\ b > 0 => 0 <= n /\ n < b
                        /\ b < 0 => b < n /\ n <= 0

\* C9: a BinaryOp of two Number literals with an operator among + - * / ^ %
\* lowers to one Number literal, the exact result (0 for a division by
\* zero), and to no runtime instruction; a BinaryOp with an operand that is
\* no Number literal lowers to the runtime instruction of its operator.
C9_Folding ==
    \A ev \in BinaryEvents :
        /\ Len(ev.code) = 1
        /\ IF ev.left.t = "Number" /\ ev.right.t = "Number" /\ ev.op \in FoldOps
           THEN /\ ev.code[1].k = "Num"
                /\ ev.code[1].d > 0
                /\ Exact(ev.op, ev.left.v, ev.right.v, ev.code[1].n, ev.code[1].d)
           ELSE ev.code[1].k = OpName(ev.op)

\* 1 / 0 has been folded to the literal 0 and gvar_a / 0, with gvar_a bound
\* to a Number, has been lowered to Divide.
C9_Witness ==
    /\ \E ev \in BinaryEvents :
          /\ ev.op = "/" /\ ev.left = Number(1) /\ ev.right = Number(0)
          /\ ev.code = <<Tk("Num", 0, <<>>)>>
    /\ \E ev \in BinaryEvents :
          /\ ev.op = "/" /\ ev.left = A /\ ev.right = Number(0)
          /\ ev.code[1].k = "Divide"
    /\ get(scope, "gvar_a").val = Number(1)

====
